---- MODULE Spec2Model ----
(***************************************************************************)
(* Model of the TTS reader.                                                *)
(*                                                                         *)
(* SpecText: the text pipeline, cleanTextForTTS (the normalizer) and       *)
(* splitTextIntoChunks (the chunker) of utils/fileProcessor.  A string is  *)
(* a sequence of UTF-16 code units (naturals), so that the character       *)
(* classes of the regular expressions are the sets of code units the       *)
(* source names.                                                           *)
(*                                                                         *)
(* SpecWav: decodeAudioData and audioBufferToWav of services/geminiService *)
(* as generateTTS chains them.  A float sample is a whole number of units  *)
(* of 1/65536, and the container is its sequence of bytes.                 *)
(*                                                                         *)
(* SpecApp: the App component: its React state, the one audio element,     *)
(* the stored record, and the asynchronous handlers (handleGenerateTTS,    *)
(* handleGenerateAllOnPage, handleEnded, handleResume) with the values     *)
(* their closures captured when they were called.                          *)
(***************************************************************************)
EXTENDS Integers, Sequences, FiniteSets, TLC

VARIABLES text, maxChars, pc, cleanedText, cleanedTwice, segments, chunks

\* The audio path: the AudioBuffer, the decoded base64 payload, the bytes of
\* the container, and the position in the path.
VARIABLES audioBuffer, payload, wav, pcW

textVars == <<text, maxChars, pc, cleanedText, cleanedTwice, segments, chunks>>

wavVars == <<audioBuffer, payload, wav, pcW>>

\* The App component: the state of useState (state, activeChunkId, isPaused,
\* isAutoGenerating, showResumeBanner), the audio element, the record in
\* localStorage, the handleGenerateTTS calls in flight and how many were
\* started, the generate-all loop, the auto-advance delay, and the numbers
\* of uploads and page loads so far.
VARIABLES state, activeChunkId, isPaused, isAutoGenerating, showResumeBanner,
          audio, stored, runs, runCount, loop, adv, uploads, reloads

appVars == <<state, activeChunkId, isPaused, isAutoGenerating, showResumeBanner,
             audio, stored, runs, runCount, loop, adv, uploads, reloads>>

vars == <<textVars, wavVars, appVars>>

\* No AudioBuffer yet.
NoBuffer == [numberOfChannels |-> 0, sampleRate |-> 0, length |-> 0, data |-> <<>>]

\* The audio path at rest.
WavIdle ==
  /\ audioBuffer = NoBuffer
  /\ payload = <<>>
  /\ wav = <<>>
  /\ pcW = "idle"

\* null / undefined for a section id, an object URL and a file name.
NoId == 0

NoUrl == 0

NoFile == 0

\* The state without a stored record.
DefaultState ==
  [originalFileName |-> NoFile, chunks |-> <<>>, isAutoNext |-> FALSE,
   lastPlayedChunkId |-> NoId]

\* The audio element without a source.
NoAudio == [src |-> NoUrl, paused |-> TRUE]

\* handleGenerateAllOnPage not running.
LoopIdle == [pc |-> "idle", items |-> <<>>, idx |-> 0]

\* No handleEnded waiting for its delay.
AdvIdle == [pc |-> "idle", chunks |-> <<>>, activeChunkId |-> NoId]

\* The App component not mounted.
AppIdle ==
  /\ state = DefaultState
  /\ activeChunkId = NoId
  /\ isPaused = TRUE
  /\ isAutoGenerating = FALSE
  /\ showResumeBanner = FALSE
  /\ audio = NoAudio
  /\ stored = DefaultState
  /\ runs = {}
  /\ runCount = 0
  /\ loop = LoopIdle
  /\ adv = AdvIdle
  /\ uploads = 0
  /\ reloads = 0

\* ---------------------------------------------------------------- bounds
\* Longest enumerated input string.
MaxLen == 4
\* Largest enumerated maxChars argument.
MaxCharsBound == 3
\* Most frames of an enumerated audio buffer or payload.
MaxFrames == 2
\* Most sections of an uploaded file.
NumSections == 2
\* Most handleGenerateTTS calls started in one page load.
MaxRuns == 3
\* Most files uploaded.
MaxUploads == 1
\* Most page reloads.
MaxReloads == 1

\* ------------------------------------------------------------ characters
NEWLINE == 10
SPACE == 32
BANG == 33
DQUOTE == 34
SQUOTE == 39
COMMA == 44
DOT == 46
QMARK == 63
LetterA == 97
NEL == 133
BlackSquare == 9632
LowDoubleQuote == 8222
FullwidthQuote == 65282
LeftSingleQuote == 8216
RightSingleQuote == 8217

\* /[\x00-\x1F\x7F-\x9F]/
IsControl(c) == c \in 0..31 \/ c \in 127..159

\* /[※▶▣◈◆▷■□○●◎◇▽▼▲△◀◁]/
DecorativeGlyphs ==
  {8251, 9654, 9635, 9672, 9670, 9655, 9632, 9633, 9675, 9679, 9678, 9671,
   9661, 9660, 9650, 9651, 9664, 9665}

\* ECMAScript \s (WhiteSpace and LineTerminator), which is also what
\* String.prototype.trim removes.
IsSpace(c) ==
  \/ c \in {9, 10, 11, 12, 13, 32, 160, 5760, 8232, 8233, 8239, 8287, 12288, 65279}
  \/ c \in 8192..8202

\* /["＂„]/ (the source lists the straight quote twice)
DoubleQuoteClass == {DQUOTE, FullwidthQuote, LowDoubleQuote}

\* /['‘’]/
SingleQuoteClass == {SQUOTE, LeftSingleQuote, RightSingleQuote}

\* /[.\n?!]/
Delimiters == {DOT, NEWLINE, QMARK, BANG}

\* ------------------------------------------------------ cleanTextForTTS
\* .replace(/[\x00-\x1F\x7F-\x9F]/g, "")
RemoveControl(s) == SelectSeq(s, LAMBDA c : ~IsControl(c))

\* .replace(/[※...◁]/g, " ")
ReplaceGlyphs(s) ==
  [k \in 1..Len(s) |-> IF s[k] \in DecorativeGlyphs THEN SPACE ELSE s[k]]

\* One left-to-right pass of .replace(/p([^\s]|$)/g, "p $1") from index k:
\* a match takes p and the character after it, so the scan resumes behind
\* that character.  atEnd is FALSE for the comma rule, /,([^\s])/.
RECURSIVE SpaceAfterFrom(_, _, _, _)
SpaceAfterFrom(s, p, atEnd, k) ==
  IF k > Len(s) THEN <<>>
  ELSE IF s[k] = p /\ k < Len(s) /\ ~IsSpace(s[k + 1])
    THEN <<p, SPACE, s[k + 1]>> \o SpaceAfterFrom(s, p, atEnd, k + 2)
  ELSE IF s[k] = p /\ k = Len(s) /\ atEnd
    THEN <<p, SPACE>>
  ELSE <<s[k]>> \o SpaceAfterFrom(s, p, atEnd, k + 1)

SpaceAfter(s, p, atEnd) == SpaceAfterFrom(s, p, atEnd, 1)

\* Length of the maximal run of c in s that starts at index k.
RECURSIVE RunLen(_, _, _)
RunLen(s, c, k) ==
  IF k > Len(s) \/ s[k] # c THEN 0 ELSE 1 + RunLen(s, c, k + 1)

Repeat(c, n) == [k \in 1..n |-> c]

\* .replace(/c{minRun,}/g, c repeated keep times) from index k.
RECURSIVE CollapseRunsFrom(_, _, _, _, _)
CollapseRunsFrom(s, c, minRun, keep, k) ==
  IF k > Len(s) THEN <<>>
  ELSE IF s[k] = c
    THEN LET r == RunLen(s, c, k)
         IN  (IF r >= minRun THEN Repeat(c, keep) ELSE Repeat(c, r))
               \o CollapseRunsFrom(s, c, minRun, keep, k + r)
  ELSE <<s[k]>> \o CollapseRunsFrom(s, c, minRun, keep, k + 1)

CollapseRuns(s, c, minRun, keep) == CollapseRunsFrom(s, c, minRun, keep, 1)

\* .replace(/[class]/g, to)
MapClass(s, class, to) ==
  [k \in 1..Len(s) |-> IF s[k] \in class THEN to ELSE s[k]]

RECURSIVE TrimStart(_)
TrimStart(s) ==
  IF s # <<>> /\ IsSpace(Head(s)) THEN TrimStart(Tail(s)) ELSE s

RECURSIVE TrimEnd(_)
TrimEnd(s) ==
  IF s # <<>> /\ IsSpace(s[Len(s)]) THEN TrimEnd(SubSeq(s, 1, Len(s) - 1)) ELSE s

\* Mutant of Trim: trimStart in place of trim.
TrimStartOnly(s) == TrimStart(s)

\* String.prototype.trim
Trim(s) == TrimEnd(TrimStart(s))

cleanTextForTTS(t) ==
  LET s1  == RemoveControl(t)
      s2  == ReplaceGlyphs(s1)
      s3  == SpaceAfter(s2, DOT, TRUE)
      s4  == SpaceAfter(s3, QMARK, TRUE)
      s5  == SpaceAfter(s4, BANG, TRUE)
      s6  == SpaceAfter(s5, COMMA, FALSE)
      s7  == CollapseRuns(s6, NEWLINE, 3, 2)
      s8  == CollapseRuns(s7, BANG, 3, 2)
      s9  == CollapseRuns(s8, QMARK, 3, 2)
      s10 == CollapseRuns(s9, DOT, 4, 3)
      s11 == MapClass(s10, DoubleQuoteClass, DQUOTE)
      s12 == MapClass(s11, SingleQuoteClass, SQUOTE)
  IN  Trim(s12)

\* --------------------------------------------------- splitTextIntoChunks
\* First index at or after k that holds no whitespace (the greedy \s*).
RECURSIVE SkipSpaces(_, _)
SkipSpaces(s, k) ==
  IF k <= Len(s) /\ IsSpace(s[k]) THEN SkipSpaces(s, k + 1) ELSE k

\* String.prototype.split with a capturing separator: the piece from p up
\* to the match, then the captured delimiter as a segment of its own; the
\* whitespace behind the delimiter is dropped.  q is the scan position.
RECURSIVE SplitFrom(_, _, _)
SplitFrom(s, p, q) ==
  IF q > Len(s) THEN <<SubSeq(s, p, Len(s))>>
  ELSE IF s[q] \in Delimiters
    THEN LET e == SkipSpaces(s, q + 1)
         IN  <<SubSeq(s, p, q - 1), <<s[q]>>>> \o SplitFrom(s, e, e)
  ELSE SplitFrom(s, p, q + 1)

\* Mutant of SplitSegments: the separator without its capturing group,
\* split(/[.\n?!]\s*/), which drops the delimiters.
RECURSIVE SplitFromNoCapture(_, _, _)
SplitFromNoCapture(s, p, q) ==
  IF q > Len(s) THEN <<SubSeq(s, p, Len(s))>>
  ELSE IF s[q] \in Delimiters
    THEN LET e == SkipSpaces(s, q + 1)
         IN  <<SubSeq(s, p, q - 1)>> \o SplitFromNoCapture(s, e, e)
  ELSE SplitFromNoCapture(s, p, q + 1)

SplitSegmentsNoCapture(s) == SplitFromNoCapture(s, 1, 1)

\* cleanedText.split(/([.\n?!])\s*/)
SplitSegments(s) == SplitFrom(s, 1, 1)

\* Mutant of Exceeds: the test without the segment's length.
ExceedsIgnoringSeg(currentChunk, seg, m) == Len(currentChunk) > m

\* (currentChunk.length + seg.length) > maxChars
Exceeds(currentChunk, seg, m) == Len(currentChunk) + Len(seg) > m

\* Mutant of PushTrimmed: the push without its guard.
PushUnguarded(cs, currentChunk) == Append(cs, Trim(currentChunk))

\* if (currentChunk.trim()) chunks.push(currentChunk.trim());
PushTrimmed(cs, currentChunk) ==
  IF Trim(currentChunk) # <<>> THEN Append(cs, Trim(currentChunk)) ELSE cs

\* One iteration of the for loop over the state [cur, out].
LoopStep(st, seg, m) ==
  IF seg = <<>> THEN st
  ELSE IF Exceeds(st.cur, seg, m)
    THEN [cur |-> seg, out |-> PushTrimmed(st.out, st.cur)]
  ELSE [cur |-> st.cur \o seg, out |-> st.out]

RECURSIVE LoopFrom(_, _, _, _)
LoopFrom(segs, i, st, m) ==
  IF i > Len(segs) THEN st ELSE LoopFrom(segs, i + 1, LoopStep(st, segs[i], m), m)

\* The loop and the final flush, given the segments.
Accumulate(segs, m) ==
  LET final == LoopFrom(segs, 1, [cur |-> <<>>, out |-> <<>>], m)
  IN  PushTrimmed(final.out, final.cur)

splitTextIntoChunks(t, m) == Accumulate(SplitSegments(cleanTextForTTS(t)), m)

\* ---------------------------------------------------------------- inputs
\* One representative per character class of the two functions.
Alphabet ==
  {LetterA, DOT, BANG, QMARK, COMMA, SPACE, NEWLINE, BlackSquare}

RECURSIVE StringsUpTo(_)
StringsUpTo(n) ==
  IF n = 0 THEN {<<>>}
  ELSE LET shorter == StringsUpTo(n - 1)
       IN  shorter \cup {Append(s, c) : s \in {x \in shorter : Len(x) = n - 1}, c \in Alphabet}

\* "Hello.World!!!!"
HelloWorldBangs == <<72, 101, 108, 108, 111, 46, 87, 111, 114, 108, 100, 33, 33, 33, 33>>
\* "Hello. World!!"
HelloWorldTwoBangs == <<72, 101, 108, 108, 111, 46, 32, 87, 111, 114, 108, 100, 33, 33>>
\* "A. B. C."
ABC == <<65, 46, 32, 66, 46, 32, 67, 46>>

\* Longer inputs and further characters (U+201C is 8220, U+201D is 8221),
\* beside the enumerated ones.
Examples ==
  { HelloWorldBangs, ABC,
    <<LetterA, NEWLINE, NEWLINE, NEWLINE, LetterA>>,
    <<LetterA, NEWLINE, NEWLINE, NEWLINE, NEWLINE, LetterA>>,
    Repeat(DOT, 4), Repeat(DOT, 5), Repeat(BANG, 4), Repeat(QMARK, 4),
    <<LetterA, NEL, LetterA>>, <<DQUOTE, SQUOTE>>,
    <<8220>>, <<8220, LetterA, 8221>>,
    <<LowDoubleQuote, LetterA, FullwidthQuote>>,
    <<LeftSingleQuote, LetterA, RightSingleQuote>>,
    <<LetterA, LetterA, LetterA, LetterA, DOT, SPACE, LetterA, DOT>> }

Inputs == StringsUpTo(MaxLen) \cup Examples

\* const MAX_CHARS_PER_CHUNK = 3000: the argument App passes, and the
\* parameter's default.
MAX_CHARS_PER_CHUNK == 3000

\* maxChars = 4 is the argument of the "A. B. C." example.
MaxCharsInputs == (1..MaxCharsBound) \cup {4, MAX_CHARS_PER_CHUNK}

\* --------------------------------------------------------- specification
InitText ==
  /\ text \in Inputs
  /\ maxChars = MAX_CHARS_PER_CHUNK
  /\ pc = "input"
  /\ cleanedText = <<>>
  /\ cleanedTwice = <<>>
  /\ segments = <<>>
  /\ chunks = <<>>
  /\ WavIdle
  /\ AppIdle

\* cleanTextForTTS(text)
Clean ==
  /\ pc = "input"
  /\ cleanedText' = cleanTextForTTS(text)
  /\ pc' = "cleaned"
  /\ UNCHANGED <<text, maxChars, cleanedTwice, segments, chunks>>
  /\ UNCHANGED <<wavVars, appVars>>

\* cleanTextForTTS applied to its own output
CleanAgain ==
  /\ pc = "cleaned"
  /\ cleanedTwice' = cleanTextForTTS(cleanedText)
  /\ pc' = "recleaned"
  /\ UNCHANGED <<text, maxChars, cleanedText, segments, chunks>>
  /\ UNCHANGED <<wavVars, appVars>>

\* splitTextIntoChunks(text, m)
Split ==
  /\ pc = "input"
  /\ \E m \in MaxCharsInputs :
       /\ maxChars' = m
       /\ chunks' = splitTextIntoChunks(text, m)
  /\ cleanedText' = cleanTextForTTS(text)
  /\ segments' = SplitSegments(cleanTextForTTS(text))
  /\ pc' = "chunked"
  /\ UNCHANGED <<text, cleanedTwice>>
  /\ UNCHANGED <<wavVars, appVars>>

NextText == Clean \/ CleanAgain \/ Split

SpecText == InitText /\ [][NextText]_vars

\* ------------------------------------------------------------ the audio path
\* One float sample unit: 1.0 is FloatOne units, so that n / 32768 is 2 n
\* units and half steps of the 16-bit scale can be told apart.
FloatOne == 2 * 32768

\* DataView.setUint16 / setInt16 (x modulo 2^16) and setUint32 (x modulo
\* 2^32) with littleEndian = true: the low bytes of x, lowest first.
Uint16LE(x) == <<x % 256, (x \div 256) % 256>>

Uint32LE(x) ==
  <<x % 256, (x \div 256) % 256, (x \div 65536) % 256, (x \div 16777216) % 256>>

\* x * mul / den as a number, then to an integer toward zero
\* (ToIntegerOrInfinity); the product is taken in two parts so that it
\* stays below 2^31.
ScaleTruncate(x, mul, den) ==
  LET a == IF x >= 0 THEN x ELSE -x
      t == (a \div den) * mul + ((a % den) * mul) \div den
  IN  IF x >= 0 THEN t ELSE -t

\* Mutant of Int16FromBytes: a Uint16Array in place of the Int16Array.
Uint16FromBytes(lo, hi) == lo + 256 * hi

\* new Int16Array(data.buffer): two bytes, little-endian, two's complement.
Int16FromBytes(lo, hi) ==
  LET v == lo + 256 * hi IN IF v >= 32768 THEN v - 65536 ELSE v

\* dataInt16[i * numChannels + channel] / 32768.0, in units
DecodeSample(s) == s * (FloatOne \div 32768)

\* decodeAudioData(data, ctx, sampleRate, numChannels); data holds a whole
\* number of frames.
decodeAudioData(data, sampleRate, numChannels) ==
  LET dataInt16 == [k \in 1..(Len(data) \div 2) |->
                      Int16FromBytes(data[2 * k - 1], data[2 * k])]
      frameCount == Len(dataInt16) \div numChannels
  IN  [numberOfChannels |-> numChannels,
       sampleRate |-> sampleRate,
       length |-> frameCount,
       data |-> [channel \in 1..numChannels |->
                   [i \in 1..frameCount |->
                      DecodeSample(dataInt16[(i - 1) * numChannels + channel])]]]

\* writeString(offset, string): the character codes
RIFF == <<82, 73, 70, 70>>
WAVE == <<87, 65, 86, 69>>
FmtChunk == <<102, 109, 116, 32>>
DataChunk == <<100, 97, 116, 97>>

\* const blockAlign = numChannels * bytesPerSample (bitDepth / 8)
BlockAlign(buffer) == buffer.numberOfChannels * (16 \div 8)

\* Mutant of DataLength: the frames times the bytes of one sample.
DataLengthOneChannel(buffer) == buffer.length * (16 \div 8)

\* const length = buffer.length * blockAlign
DataLength(buffer) == buffer.length * BlockAlign(buffer)

\* Mutant of Clamp: the sample as it is.
NoClamp(x) == x

\* Math.max(-1, Math.min(1, x))
Clamp(x) ==
  LET low == IF x < FloatOne THEN x ELSE FloatOne
  IN  IF low > -FloatOne THEN low ELSE -FloatOne

\* sample < 0 ? sample * 0x8000 : sample * 0x7FFF, as setInt16 takes it:
\* toward zero (the store keeps it modulo 2^16).
IntSample(x) ==
  LET sample == Clamp(x)
  IN  IF sample < 0 THEN ScaleTruncate(sample, 32768, FloatOne)
      ELSE ScaleTruncate(sample, 32767, FloatOne)

\* The 44 bytes before the samples.
WavHeader(buffer) ==
  RIFF \o Uint32LE(36 + DataLength(buffer)) \o WAVE \o FmtChunk
    \o Uint32LE(16) \o Uint16LE(1) \o Uint16LE(buffer.numberOfChannels)
    \o Uint32LE(buffer.sampleRate)
    \o Uint32LE(buffer.sampleRate * BlockAlign(buffer))
    \o Uint16LE(BlockAlign(buffer)) \o Uint16LE(16)
    \o DataChunk \o Uint32LE(DataLength(buffer))

\* The loops over i and channel: sample k (from 0) of the data is frame
\* k \div numChannels of channel k % numChannels.
RECURSIVE WavSamplesFrom(_, _)
WavSamplesFrom(buffer, k) ==
  IF k >= buffer.length * buffer.numberOfChannels THEN <<>>
  ELSE LET i == k \div buffer.numberOfChannels
           channel == k % buffer.numberOfChannels
       IN  Uint16LE(IntSample(buffer.data[channel + 1][i + 1]))
             \o WavSamplesFrom(buffer, k + 1)

\* The bytes of new ArrayBuffer(44 + length): what the loops do not write
\* stays 0.
audioBufferToWav(buffer) ==
  LET written == WavHeader(buffer) \o WavSamplesFrom(buffer, 0)
  IN  [k \in 1..(44 + DataLength(buffer)) |->
         IF k <= Len(written) THEN written[k] ELSE 0]

\* ------------------------------------------------------ audio path inputs
\* Float samples: -2.0, -1.0, -3/65536, 0, 1/2, 1.0, 2.0
FloatSamples == {-2 * FloatOne, -FloatOne, -3, 0, FloatOne \div 2, FloatOne, 2 * FloatOne}

ChannelCounts == {1, 2}

SampleRates == {24000, 44100}

SeqsOfLen(S, n) == [1..n -> S]

AudioBuffers ==
  UNION { UNION { { [numberOfChannels |-> c, sampleRate |-> r, length |-> n, data |-> d] :
                      r \in SampleRates, d \in SeqsOfLen(SeqsOfLen(FloatSamples, n), c) } :
                  n \in 1..MaxFrames } :
          c \in ChannelCounts }

\* Bytes of a payload: with them a sample is 0, 1, 255, 256, 32767, -32768,
\* -32513, -1 and others.
PayloadBytes == {0, 1, 127, 128, 255}

Payloads == UNION { SeqsOfLen(PayloadBytes, 2 * n) : n \in 1..MaxFrames }

\* ------------------------------------------------ audio path specification
InitWav ==
  /\ text = <<>>
  /\ maxChars = MAX_CHARS_PER_CHUNK
  /\ pc = "idle"
  /\ cleanedText = <<>>
  /\ cleanedTwice = <<>>
  /\ segments = <<>>
  /\ chunks = <<>>
  /\ wav = <<>>
  /\ pcW = "input"
  /\ AppIdle
  /\ \/ audioBuffer \in AudioBuffers /\ payload = <<>>
     \/ audioBuffer = NoBuffer /\ payload \in Payloads

\* audioBufferToWav(buffer)
Encode ==
  /\ pcW = "input"
  /\ audioBuffer # NoBuffer
  /\ wav' = audioBufferToWav(audioBuffer)
  /\ pcW' = "encoded"
  /\ UNCHANGED <<audioBuffer, payload>>
  /\ UNCHANGED <<textVars, appVars>>

\* generateTTS from the decoded payload on: decodeAudioData(decodedData,
\* audioContext, 24000, 1), then audioBufferToWav(audioBuffer).
Synthesize ==
  /\ pcW = "input"
  /\ payload # <<>>
  /\ audioBuffer' = decodeAudioData(payload, 24000, 1)
  /\ wav' = audioBufferToWav(decodeAudioData(payload, 24000, 1))
  /\ pcW' = "synthesized"
  /\ UNCHANGED payload
  /\ UNCHANGED <<textVars, appVars>>

NextWav == Encode \/ Synthesize

SpecWav == InitWav /\ [][NextWav]_vars

\* ------------------------------------------------------- the App component
\* The text pipeline and the audio path at rest.
OthersIdle ==
  /\ text = <<>>
  /\ maxChars = MAX_CHARS_PER_CHUNK
  /\ pc = "idle"
  /\ cleanedText = <<>>
  /\ cleanedTwice = <<>>
  /\ segments = <<>>
  /\ chunks = <<>>
  /\ WavIdle

\* A section of a new file: status 'pending', no audioUrl.
NewChunk(id) ==
  [id |-> id, content |-> "original", status |-> "pending", audioUrl |-> NoUrl]

\* The indexes of the sections of cs with the given id.
IndexesOf(cs, id) == {i \in DOMAIN cs : cs[i].id = id}

\* findIndex, counted from 1: 0 when there is no such section (-1 in the
\* source).
FindIndex(cs, id) ==
  IF IndexesOf(cs, id) = {} THEN 0
  ELSE CHOOSE i \in IndexesOf(cs, id) : \A j \in IndexesOf(cs, id) : i <= j

\* chunks.map(c => c.id === id ? { ...c, status } : c)
WithStatus(cs, id, status) ==
  [i \in DOMAIN cs |->
     IF cs[i].id = id THEN [cs[i] EXCEPT !.status = status] ELSE cs[i]]

\* chunks.map(c => c.id === id ? { ...c, content: restructuredContent,
\* status: 'generating' } : c)
WithContent(cs, id) ==
  [i \in DOMAIN cs |->
     IF cs[i].id = id
     THEN [cs[i] EXCEPT !.content = "restructured", !.status = "generating"]
     ELSE cs[i]]

\* chunks.map(c => c.id === id ? { ...c, status: 'ready', audioUrl: url } : c)
WithAudio(cs, id, url) ==
  [i \in DOMAIN cs |->
     IF cs[i].id = id
     THEN [cs[i] EXCEPT !.status = "ready", !.audioUrl = url]
     ELSE cs[i]]

\* The record the persistence effect writes: the state as it is.
PersistedAsIs(s) == s

\* The record the persistence effect writes: the state with every section
\* without audioUrl and with status 'pending'.
Persisted(s) ==
  [s EXCEPT !.chunks =
     [i \in DOMAIN s.chunks |->
        [s.chunks[i] EXCEPT !.audioUrl = NoUrl, !.status = "pending"]]]

\* The initial state built from the stored record: sanitizedChunks.
Loaded(saved) ==
  [saved EXCEPT !.chunks =
     [i \in DOMAIN saved.chunks |->
        [saved.chunks[i] EXCEPT !.status = "pending", !.audioUrl = NoUrl]]]

\* setState(s), and the persistence effect of the render that follows.
SetState(s) ==
  /\ state' = s
  /\ stored' = Persisted(s)

\* The three things handlePlay writes.
Player == [activeChunkId |-> activeChunkId, audio |-> audio, isPaused |-> isPaused]

SetPlayer(p) ==
  /\ activeChunkId' = p.activeChunkId
  /\ audio' = p.audio
  /\ isPaused' = p.isPaused

\* handlePlay(url, id) of a render whose activeChunkId was capActive, on the
\* player p; the play and pause events set isPaused to audio.paused.
handlePlay(p, url, id, capActive) ==
  IF capActive = id
  THEN [p EXCEPT !.audio.paused = ~p.audio.paused, !.isPaused = ~p.audio.paused]
  ELSE [activeChunkId |-> id,
        audio |-> [src |-> url, paused |-> FALSE],
        isPaused |-> FALSE]

\* handleGenerateTTS goes past its first test: the section is in the chunks
\* of its render and is not 'ready' there.
StartsRun(cs, id) == \E i \in DOMAIN cs : cs[i].id = id /\ cs[i].status # "ready"

\* handleGenerateTTS(id, autoPlayAfter) up to its first await: the section
\* becomes 'analyzing' and the reflow request is in flight.
Begin(id, autoPlayAfter, caller, capActive) ==
  /\ runCount < MaxRuns
  /\ runCount' = runCount + 1
  /\ runs' = runs \cup {[n |-> runCount + 1, id |-> id, pc |-> "reflow",
                         autoPlayAfter |-> autoPlayAfter, caller |-> caller,
                         activeChunkId |-> capActive]}
  /\ SetState([state EXCEPT !.chunks = WithStatus(@, id, "analyzing")])

FileShown == state.originalFileName # NoFile

InitApp ==
  /\ OthersIdle
  /\ AppIdle

\* handleFileUpload: the file gives n sections with fresh ids.
Upload ==
  /\ ~FileShown
  /\ uploads < MaxUploads
  /\ \E n \in 1..NumSections :
       SetState([state EXCEPT
                   !.originalFileName = uploads + 1,
                   !.chunks = [i \in 1..n |-> NewChunk(uploads * NumSections + i)],
                   !.lastPlayedChunkId = NoId])
  /\ showResumeBanner' = FALSE
  /\ uploads' = uploads + 1
  /\ UNCHANGED <<activeChunkId, isPaused, isAutoGenerating, audio, runs,
                 runCount, loop, adv, reloads>>

\* The generate button of a 'pending' section or the retry button of an
\* 'error' section: handleGenerateTTS(chunk.id).
ClickGenerate ==
  /\ FileShown
  /\ \E i \in DOMAIN state.chunks :
       /\ state.chunks[i].status \in {"pending", "error"}
       /\ Begin(state.chunks[i].id, FALSE, "button", NoId)
  /\ UNCHANGED <<activeChunkId, isPaused, isAutoGenerating, showResumeBanner,
                 audio, loop, adv, uploads, reloads>>

\* restructureTextWithAI resolves: the section gets the content and becomes
\* 'generating'; the synthesis request is in flight.
ReflowDone ==
  \E r \in runs :
    /\ r.pc = "reflow"
    /\ runs' = (runs \ {r}) \cup {[r EXCEPT !.pc = "tts"]}
    /\ SetState([state EXCEPT !.chunks = WithContent(@, r.id)])
    /\ UNCHANGED <<activeChunkId, isPaused, isAutoGenerating, showResumeBanner,
                   audio, runCount, loop, adv, uploads, reloads>>

\* What the caller does with success = true.
AfterSuccess(r) ==
  /\ loop' = IF r.caller = "loop" THEN [loop EXCEPT !.pc = "delay"] ELSE loop
  /\ UNCHANGED isAutoGenerating

\* generateTTS resolves: the section becomes 'ready' with the new URL, and
\* with autoPlayAfter handlePlay(result.url, chunkId); then the caller goes
\* on.
TtsDone ==
  \E r \in runs :
    /\ r.pc = "tts"
    /\ runs' = runs \ {r}
    /\ SetState([state EXCEPT !.chunks = WithAudio(@, r.id, r.n)])
    /\ SetPlayer(IF r.autoPlayAfter
                 THEN handlePlay(Player, r.n, r.id, r.activeChunkId)
                 ELSE Player)
    /\ AfterSuccess(r)
    /\ UNCHANGED <<showResumeBanner, runCount, adv, uploads, reloads>>

\* What handleEnded does with success = false: nothing.
AfterAdvanceFailureKeep(p) == p

\* What handleEnded does with success = false: setActiveChunkId(null),
\* setIsPaused(true).
AfterAdvanceFailure(p) == [p EXCEPT !.activeChunkId = NoId, !.isPaused = TRUE]

\* Either request rejects: the section becomes 'error', and the caller gets
\* false: the generate-all loop breaks, handleEnded clears the player.
GenerateFails ==
  \E r \in runs :
    /\ runs' = runs \ {r}
    /\ SetState([state EXCEPT !.chunks = WithStatus(@, r.id, "error")])
    /\ SetPlayer(IF r.caller = "advance" THEN AfterAdvanceFailure(Player) ELSE Player)
    /\ loop' = IF r.caller = "loop" THEN LoopIdle ELSE loop
    /\ isAutoGenerating' = IF r.caller = "loop" THEN FALSE ELSE isAutoGenerating
    /\ UNCHANGED <<showResumeBanner, runCount, adv, uploads, reloads>>

\* The play button of a 'ready' section: handlePlay(chunk.audioUrl, chunk.id).
ClickPlay ==
  /\ FileShown
  /\ \E i \in DOMAIN state.chunks :
       /\ state.chunks[i].status = "ready"
       /\ state.chunks[i].audioUrl # NoUrl
       /\ SetPlayer(handlePlay(Player, state.chunks[i].audioUrl,
                               state.chunks[i].id, activeChunkId))
  /\ UNCHANGED <<state, stored, isAutoGenerating, showResumeBanner, runs,
                 runCount, loop, adv, uploads, reloads>>

\* toggleGlobalPlay, the button of the player bar.
ToggleGlobalPlay ==
  /\ activeChunkId # NoId
  /\ IndexesOf(state.chunks, activeChunkId) # {}
  /\ audio' = [audio EXCEPT !.paused = ~audio.paused]
  /\ isPaused' = ~audio.paused
  /\ UNCHANGED <<state, stored, activeChunkId, isAutoGenerating,
                 showResumeBanner, runs, runCount, loop, adv, uploads, reloads>>

Playing == audio.src # NoUrl /\ ~audio.paused

\* handleTimeUpdate
TimeUpdate ==
  /\ Playing
  /\ activeChunkId # NoId
  /\ SetState([state EXCEPT !.lastPlayedChunkId = activeChunkId])
  /\ UNCHANGED <<activeChunkId, isPaused, isAutoGenerating, showResumeBanner,
                 audio, runs, runCount, loop, adv, uploads, reloads>>

\* The audio reaches its end: the element pauses itself (pause event), then
\* handleEnded runs up to its return or its await of the delay.
Ended ==
  /\ Playing
  /\ audio' = [audio EXCEPT !.paused = TRUE]
  /\ isPaused' = TRUE
  /\ IF ~state.isAutoNext
     THEN /\ activeChunkId' = NoId
          /\ UNCHANGED adv
     ELSE /\ adv.pc = "idle"
          /\ adv' = [pc |-> "delay", chunks |-> state.chunks,
                     activeChunkId |-> activeChunkId]
          /\ UNCHANGED activeChunkId
  /\ UNCHANGED <<state, stored, isAutoGenerating, showResumeBanner, runs,
                 runCount, loop, uploads, reloads>>

\* The section handleEnded goes on with after its delay, as an index into
\* the chunks it captured; past the end when there is none.
NextIndex == FindIndex(adv.chunks, adv.activeChunkId) + 1

\* handleEnded after the 1500 ms: it plays the next section of the captured
\* chunks if that is 'ready' there, else generates it with autoPlayAfter.
AdvDelayExpires ==
  /\ adv.pc = "delay"
  /\ adv' = AdvIdle
  /\ IF NextIndex \in DOMAIN adv.chunks
     THEN LET nextChunk == adv.chunks[NextIndex]
          IN  IF nextChunk.status = "ready" /\ nextChunk.audioUrl # NoUrl
              THEN /\ SetPlayer(handlePlay(Player, nextChunk.audioUrl,
                                           nextChunk.id, adv.activeChunkId))
                   /\ UNCHANGED <<state, stored, runs, runCount>>
              ELSE /\ activeChunkId' = NoId
                   /\ Begin(nextChunk.id, TRUE, "advance", adv.activeChunkId)
                   /\ UNCHANGED <<audio, isPaused>>
     ELSE /\ activeChunkId' = NoId
          /\ isPaused' = TRUE
          /\ UNCHANGED <<audio, state, stored, runs, runCount>>
  /\ UNCHANGED <<isAutoGenerating, showResumeBanner, loop, uploads, reloads>>

\* The index of the first section of items after index k that is not
\* 'ready' there; 0 when there is none.
NextNotReady(items, k) ==
  IF \E i \in DOMAIN items : i > k /\ items[i].status # "ready"
  THEN CHOOSE i \in DOMAIN items :
         /\ i > k /\ items[i].status # "ready"
         /\ \A j \in DOMAIN items : (j > k /\ items[j].status # "ready") => i <= j
  ELSE 0

\* The generate-all button may start the loop, whatever isAutoGenerating.
CanGenerateAllAlways == TRUE

\* The generate-all button may start the loop: it is not disabled, and
\* handleGenerateAllOnPage does not return at once.
CanGenerateAll == ~isAutoGenerating

\* handleGenerateAllOnPage up to its first await: it captures currentItems
\* and calls handleGenerateTTS for the first that is not 'ready'.
ClickGenerateAll ==
  /\ FileShown
  /\ CanGenerateAll
  /\ NextNotReady(state.chunks, 0) # 0
  /\ isAutoGenerating' = TRUE
  /\ loop' = [pc |-> "run", items |-> state.chunks,
              idx |-> NextNotReady(state.chunks, 0)]
  /\ Begin(state.chunks[NextNotReady(state.chunks, 0)].id, FALSE, "loop", NoId)
  /\ UNCHANGED <<activeChunkId, isPaused, showResumeBanner, audio, adv,
                 uploads, reloads>>

\* The loop after its 1000 ms: the next captured item that is not 'ready'
\* in the captured list, or the end of the loop.
LoopDelayExpires ==
  /\ loop.pc = "delay"
  /\ IF NextNotReady(loop.items, loop.idx) # 0
     THEN /\ loop' = [loop EXCEPT !.pc = "run",
                                  !.idx = NextNotReady(loop.items, loop.idx)]
          /\ Begin(loop.items[NextNotReady(loop.items, loop.idx)].id,
                   FALSE, "loop", NoId)
          /\ UNCHANGED isAutoGenerating
     ELSE /\ loop' = LoopIdle
          /\ isAutoGenerating' = FALSE
          /\ UNCHANGED <<state, stored, runs, runCount>>
  /\ UNCHANGED <<activeChunkId, isPaused, showResumeBanner, audio, adv,
                 uploads, reloads>>

\* handleResume: handleGenerateTTS(lastPlayedChunkId, true).
ClickResume ==
  /\ showResumeBanner
  /\ FileShown
  /\ state.lastPlayedChunkId # NoId
  /\ showResumeBanner' = FALSE
  /\ IF StartsRun(state.chunks, state.lastPlayedChunkId)
     THEN /\ Begin(state.lastPlayedChunkId, TRUE, "resume", activeChunkId)
          /\ UNCHANGED <<activeChunkId, audio, isPaused>>
     ELSE /\ LET i == FindIndex(state.chunks, state.lastPlayedChunkId)
             IN  SetPlayer(IF i # 0 /\ state.chunks[i].audioUrl # NoUrl
                           THEN handlePlay(Player, state.chunks[i].audioUrl,
                                           state.lastPlayedChunkId, activeChunkId)
                           ELSE Player)
          /\ UNCHANGED <<state, stored, runs, runCount>>
  /\ UNCHANGED <<isAutoGenerating, loop, adv, uploads, reloads>>

\* The cancel button of the resume banner.
DismissResume ==
  /\ showResumeBanner
  /\ FileShown
  /\ showResumeBanner' = FALSE
  /\ UNCHANGED <<state, stored, activeChunkId, isPaused, isAutoGenerating,
                 audio, runs, runCount, loop, adv, uploads, reloads>>

\* The auto-next button.
ToggleAutoNext ==
  /\ FileShown
  /\ SetState([state EXCEPT !.isAutoNext = ~state.isAutoNext])
  /\ UNCHANGED <<activeChunkId, isPaused, isAutoGenerating, showResumeBanner,
                 audio, runs, runCount, loop, adv, uploads, reloads>>

\* resetAll, confirmed.
ResetAll ==
  /\ FileShown
  /\ SetState(DefaultState)
  /\ activeChunkId' = NoId
  /\ showResumeBanner' = FALSE
  /\ UNCHANGED <<isPaused, isAutoGenerating, audio, runs, runCount, loop, adv,
                 uploads, reloads>>

\* The page is loaded again: the state is built from the stored record,
\* everything else starts over and nothing of the old page is in flight.
Reload ==
  /\ reloads < MaxReloads
  /\ reloads' = reloads + 1
  /\ SetState(Loaded(stored))
  /\ showResumeBanner' =
       (stored.lastPlayedChunkId # NoId /\ stored.originalFileName # NoFile)
  /\ activeChunkId' = NoId
  /\ isPaused' = TRUE
  /\ isAutoGenerating' = FALSE
  /\ audio' = NoAudio
  /\ runs' = {}
  /\ runCount' = 0
  /\ loop' = LoopIdle
  /\ adv' = AdvIdle
  /\ UNCHANGED uploads

NextApp ==
  \/ (Upload /\ UNCHANGED <<textVars, wavVars>>)
  \/ (ClickGenerate /\ UNCHANGED <<textVars, wavVars>>)
  \/ (ReflowDone /\ UNCHANGED <<textVars, wavVars>>)
  \/ (TtsDone /\ UNCHANGED <<textVars, wavVars>>)
  \/ (GenerateFails /\ UNCHANGED <<textVars, wavVars>>)
  \/ (ClickPlay /\ UNCHANGED <<textVars, wavVars>>)
  \/ (ToggleGlobalPlay /\ UNCHANGED <<textVars, wavVars>>)
  \/ (TimeUpdate /\ UNCHANGED <<textVars, wavVars>>)
  \/ (Ended /\ UNCHANGED <<textVars, wavVars>>)
  \/ (AdvDelayExpires /\ UNCHANGED <<textVars, wavVars>>)
  \/ (ClickGenerateAll /\ UNCHANGED <<textVars, wavVars>>)
  \/ (LoopDelayExpires /\ UNCHANGED <<textVars, wavVars>>)
  \/ (ClickResume /\ UNCHANGED <<textVars, wavVars>>)
  \/ (DismissResume /\ UNCHANGED <<textVars, wavVars>>)
  \/ (ToggleAutoNext /\ UNCHANGED <<textVars, wavVars>>)
  \/ (ResetAll /\ UNCHANGED <<textVars, wavVars>>)
  \/ (Reload /\ UNCHANGED <<textVars, wavVars>>)

SpecApp == InitApp /\ [][NextApp]_vars

\* ------------------------------------------------- definitions for claims
Range(f) == {f[k] : k \in DOMAIN f}

StripSpaces(s) == SelectSeq(s, LAMBDA c : ~IsSpace(c))

RECURSIVE Concat(_)
Concat(ss) == IF ss = <<>> THEN <<>> ELSE Head(ss) \o Concat(Tail(ss))

\* s holds sub at some position.
Contains(s, sub) ==
  \E k \in 1..(Len(s) - Len(sub) + 1) : SubSeq(s, k, k + Len(sub) - 1) = sub

TerminalPunctuation == {DOT, QMARK, BANG}

\* U+201C, U+201D, U+201E, U+FF02, U+2018, U+2019
QuoteVariants == {8220, 8221, 8222, 65282, 8216, 8217}

\* The input is letters, then a run of n c's at its end.
LettersThenRun(s, c, n) ==
  /\ Len(s) >= n
  /\ \A k \in 1..Len(s) : s[k] = (IF k > Len(s) - n THEN c ELSE LetterA)

\* s[i..j] is a run of 3 or more newlines with a letter on either side.
BlankLineBreak(s, i, j) ==
  /\ 1 < i /\ i + 2 <= j /\ j < Len(s)
  /\ \A k \in i..j : s[k] = NEWLINE
  /\ s[i - 1] = LetterA /\ s[j + 1] = LetterA

\* --------------------------------------------------------------- claims
\* C1: cleanTextForTTS is idempotent: cleaning the cleaned text again
\* gives the cleaned text.
C1_Idempotent == pc = "recleaned" => cleanedTwice = cleanedText

\* C2: a run of 3 or more '!' (or '?') comes out as exactly two, a run of 4
\* or more '.' as exactly three, the letters before it kept; and
\* "Hello.World!!!!" comes out as "Hello. World!!".
C2_RunsCollapse ==
  pc = "cleaned" =>
    /\ text = HelloWorldBangs => cleanedText = HelloWorldTwoBangs
    /\ \A n \in 3..Len(text) :
         /\ LettersThenRun(text, BANG, n) =>
              cleanedText = Repeat(LetterA, Len(text) - n) \o Repeat(BANG, 2)
         /\ LettersThenRun(text, QMARK, n) =>
              cleanedText = Repeat(LetterA, Len(text) - n) \o Repeat(QMARK, 2)
    /\ \A n \in 4..Len(text) :
         LettersThenRun(text, DOT, n) =>
           cleanedText = Repeat(LetterA, Len(text) - n) \o Repeat(DOT, 3)

\* C3: in the cleaned text every '.', '?' and '!' that is not the last
\* character is followed by exactly one space: by a space, and not by a
\* second whitespace character behind it.
C3_OneSpaceAfterTerminal ==
  pc = "cleaned" =>
    \A k \in 1..(Len(cleanedText) - 1) :
      cleanedText[k] \in TerminalPunctuation =>
        /\ cleanedText[k + 1] = SPACE
        /\ k + 2 <= Len(cleanedText) => ~IsSpace(cleanedText[k + 2])

\* C4: no curly, low or alternate quote glyph remains in the cleaned text.
C4_QuotesStraightened ==
  pc = "cleaned" => \A k \in 1..Len(cleanedText) : cleanedText[k] \notin QuoteVariants

\* C5: a blank-line break of the input (3 or more newlines between
\* letters) is exactly two newlines in the cleaned text, and the chunker
\* gets a newline delimiter as a segment.
C5_BlankLineKept ==
  \A i \in 1..Len(text), j \in 1..Len(text) :
    BlankLineBreak(text, i, j) =>
      /\ pc \in {"cleaned", "chunked"} =>
           /\ Contains(cleanedText, <<NEWLINE, NEWLINE>>)
           /\ ~Contains(cleanedText, <<NEWLINE, NEWLINE, NEWLINE>>)
      /\ pc = "chunked" => <<NEWLINE>> \in Range(segments)

\* C6: the cleaned text holds no control character and no decorative
\* glyph, and neither starts nor ends with whitespace.
C6_NoControlNoGlyphTrimmed ==
  pc \in {"cleaned", "chunked"} =>
    /\ \A k \in 1..Len(cleanedText) :
         ~IsControl(cleanedText[k]) /\ cleanedText[k] \notin DecorativeGlyphs
    /\ cleanedText # <<>> =>
         ~IsSpace(cleanedText[1]) /\ ~IsSpace(cleanedText[Len(cleanedText)])

\* C6 witness: an input with a control character, a glyph and whitespace
\* at both ends has been cleaned to a non-empty text.
C6_Witness ==
  /\ pc = "cleaned"
  /\ \E k \in 1..Len(text) : IsControl(text[k])
  /\ \E k \in 1..Len(text) : text[k] \in DecorativeGlyphs
  /\ text # <<>> /\ IsSpace(text[1]) /\ IsSpace(text[Len(text)])
  /\ cleanedText # <<>>

C8_ContentPreserved ==
  pc = "chunked" => StripSpaces(Concat(chunks)) = StripSpaces(cleanedText)

\* C8 witness: a text with whitespace behind a delimiter and elsewhere has
\* been split into several sections.
C8_Witness ==
  /\ pc = "chunked"
  /\ Len(chunks) >= 2
  /\ Contains(cleanedText, <<DOT, SPACE>>)
  /\ Concat(chunks) # cleanedText

\* C9: a delimiter lands in the section of the text it terminates (when
\* every delimiter of the cleaned text follows text directly, no section
\* starts with a delimiter), and "A. B. C." with maxChars = 4 gives
\* "A.", "B.", "C.".
C9_DelimiterStaysWithText ==
  pc = "chunked" =>
    /\ (text = ABC /\ maxChars = 4) =>
         chunks = << <<65, 46>>, <<66, 46>>, <<67, 46>> >>
    /\ (\A k \in 1..Len(cleanedText) :
          cleanedText[k] \in Delimiters =>
            k > 1 /\ cleanedText[k - 1] \notin Delimiters /\ ~IsSpace(cleanedText[k - 1]))
         => \A n \in 1..Len(chunks) : chunks[n][1] \notin Delimiters

\* C10: no section for an empty input or an input that cleans to the
\* empty string; no section is empty or starts or ends with whitespace.
C10_NoEmptySection ==
  pc = "chunked" =>
    /\ (text = <<>> \/ cleanedText = <<>>) => chunks = <<>>
    /\ \A n \in 1..Len(chunks) :
         /\ chunks[n] # <<>>
         /\ ~IsSpace(chunks[n][1])
         /\ ~IsSpace(chunks[n][Len(chunks[n])])

\* C10 witness: a segment that ends with whitespace, and a first segment
\* that alone exceeds maxChars, have been flushed.
C10_Witness ==
  /\ pc = "chunked"
  /\ Len(chunks) >= 2
  /\ Len(segments[1]) > maxChars
  /\ IsSpace(segments[1][Len(segments[1])])

\* ---------------------------------------- definitions for the audio claims
\* Readers of the container, as a parser of the format reads it.
ReadUint16(b, off) == b[off + 1] + 256 * b[off + 2]

ReadUint32(b, off) ==
  b[off + 1] + 256 * b[off + 2] + 65536 * b[off + 3] + 16777216 * b[off + 4]

ReadInt16(b, off) ==
  LET v == ReadUint16(b, off) IN IF v >= 32768 THEN v - 65536 ELSE v

\* The written 16-bit sample of frame i (from 1) of channel c (from 1).
WrittenSample(i, c) ==
  ReadInt16(wav, 44 + ((i - 1) * audioBuffer.numberOfChannels + (c - 1)) * 2)

Abs(x) == IF x >= 0 THEN x ELSE -x

\* C11: the container is 44 + frameCount * channelCount * 2 bytes; its
\* header declares PCM, 16 bits, the channel count, the sample rate, the
\* RIFF size 36 + dataLength at offset 4 and dataLength at offset 40; the
\* interleaved samples start at byte 44.
C11_WavLayout ==
  pcW = "encoded" =>
    LET dataLength == audioBuffer.length * audioBuffer.numberOfChannels * 2
    IN  /\ Len(wav) = 44 + dataLength
        /\ SubSeq(wav, 1, 4) = RIFF /\ SubSeq(wav, 9, 12) = WAVE
        /\ ReadUint32(wav, 4) = 36 + dataLength
        /\ ReadUint16(wav, 20) = 1
        /\ ReadUint16(wav, 22) = audioBuffer.numberOfChannels
        /\ ReadUint32(wav, 24) = audioBuffer.sampleRate
        /\ ReadUint16(wav, 34) = 16
        /\ ReadUint32(wav, 40) = dataLength
        /\ \A i \in 1..audioBuffer.length, c \in 1..audioBuffer.numberOfChannels :
             WrittenSample(i, c) = IntSample(audioBuffer.data[c][i])

\* C11 witness: a buffer of two channels and two frames with different
\* samples has been encoded.
C11_Witness ==
  /\ pcW = "encoded"
  /\ audioBuffer.numberOfChannels = 2
  /\ audioBuffer.length = 2
  /\ audioBuffer.data[1] # audioBuffer.data[2]
  /\ audioBuffer.data[1][1] # audioBuffer.data[1][2]

\* C12: a sample of 1.0 or more is written as 32767, one of -1.0 or less
\* as -32768, 0 as 0; a sample between is scaled by 32768 below zero and
\* by 32767 from zero on, and keeps its sign (no wrap-around).
C12_ClampAndScale ==
  pcW = "encoded" =>
    \A i \in 1..audioBuffer.length, c \in 1..audioBuffer.numberOfChannels :
      LET x == audioBuffer.data[c][i]
          w == WrittenSample(i, c)
      IN  /\ x >= FloatOne => w = 32767
          /\ x <= -FloatOne => w = -32768
          /\ x = 0 => w = 0
          /\ (-FloatOne < x /\ x < 0) =>
               w <= 0 /\ w * FloatOne >= x * 32768 /\ (w - 1) * FloatOne < x * 32768
          /\ (0 < x /\ x < FloatOne) =>
               w >= 0 /\ w * FloatOne <= x * 32767 /\ (w + 1) * FloatOne > x * 32767

\* C12 witness: samples above 1.0, below -1.0 and inside have been written.
C12_Witness ==
  /\ pcW = "encoded"
  /\ audioBuffer.numberOfChannels = 2
  /\ audioBuffer.length = 2
  /\ audioBuffer.data[1] = <<2 * FloatOne, -2 * FloatOne>>
  /\ audioBuffer.data[2] = <<-3, FloatOne \div 2>>

\* The k-th (from 1) signed 16-bit sample of the payload.
PayloadSample(k) ==
  LET v == payload[2 * k - 1] + 256 * payload[2 * k]
  IN  IF v >= 32768 THEN v - 65536 ELSE v

\* C13: every sample of the payload comes back from decodeAudioData and
\* audioBufferToWav within 1 of itself, and the header carries the rate
\* 24000 and one channel.
C13_RoundTrip ==
  pcW = "synthesized" =>
    /\ Len(wav) = 44 + Len(payload)
    /\ ReadUint32(wav, 24) = 24000
    /\ ReadUint16(wav, 22) = 1
    /\ \A k \in 1..(Len(payload) \div 2) :
         Abs(ReadInt16(wav, 44 + 2 * (k - 1)) - PayloadSample(k)) <= 1

\* C13 witness: a payload with the samples 32767 and -32768 has been
\* decoded and encoded.
C13_Witness ==
  /\ pcW = "synthesized"
  /\ Len(payload) = 4
  /\ PayloadSample(1) = 32767
  /\ PayloadSample(2) = -32768

\* ------------------------------------------ definitions for the App claims
AllPending(cs) ==
  \A i \in DOMAIN cs : cs[i].status = "pending" /\ cs[i].audioUrl = NoUrl

\* C14: the stored record always has every section 'pending' without
\* audioUrl, and the state built from it at startup (a reloaded page before
\* any generation) has every section 'pending' without audioUrl.
C14_NeverCarried ==
  /\ AllPending(stored.chunks)
  /\ (reloads > 0 /\ runCount = 0) => AllPending(state.chunks)

\* C14 witness: the page was reloaded from a record of a file one of whose
\* sections had been generated and played, and its sections are listed.
C14_Witness ==
  /\ reloads > 0
  /\ runCount = 0
  /\ showResumeBanner
  /\ Len(state.chunks) = NumSections
  /\ Len(stored.chunks) = NumSections

\* The status changes the claim allows.
AllowedStatusSteps ==
  { <<"pending", "analyzing">>, <<"error", "analyzing">>,
    <<"analyzing", "generating">>, <<"generating", "ready">>,
    <<"analyzing", "error">>, <<"generating", "error">> }

\* C15: apart from a reload, the status of a section changes only pending or
\* error -> analyzing -> generating -> ready, or from analyzing or
\* generating to error.
C15_StatusOrder ==
  [][\A i \in DOMAIN state.chunks :
       ( /\ reloads' = reloads
         /\ i \in DOMAIN state'.chunks
         /\ state'.chunks[i].id = state.chunks[i].id
         /\ state'.chunks[i].status # state.chunks[i].status )
       => <<state.chunks[i].status, state'.chunks[i].status>> \in AllowedStatusSteps]_vars

InFlightSections ==
  {i \in DOMAIN state.chunks : state.chunks[i].status \in {"analyzing", "generating"}}

LoopRuns == {r \in runs : r.caller = "loop"}

\* C16 as stated: at most one section is 'analyzing' or 'generating'.
C16_OneSectionInFlight == Cardinality(InFlightSections) <= 1

\* C16: the generate-all loop has at most one request in flight, none
\* while it waits between sections, and isAutoGenerating is set as long as
\* it runs.
C16_LoopOneAtATime ==
  /\ Cardinality(LoopRuns) <= 1
  /\ (loop.pc = "run") <=> (LoopRuns # {})
  /\ loop.pc # "idle" => isAutoGenerating

\* C16 witness: the loop is at its second section while another section,
\* started by its own button, is in flight too.
C16_Witness ==
  /\ loop.pc = "run"
  /\ loop.idx = 2
  /\ \E r \in runs : r.caller = "button"
  /\ Cardinality(InFlightSections) = 2

\* handleEnded goes on after its delay in this step.
AdvExpires == adv.pc = "delay" /\ adv'.pc = "idle" /\ reloads' = reloads

Listed(cs, id) == IndexesOf(cs, id) # {}

\* C17: after the delay, for a next section that is not ready, exactly one
\* generation run starts; when it succeeds the section is ready and is
\* played; when it fails the section is 'error', no section is active, the
\* player is marked paused, and nothing else is started.
C17_OneAttempt ==
  [][ /\ ( /\ AdvExpires
           /\ NextIndex \in DOMAIN adv.chunks
           /\ ~(adv.chunks[NextIndex].status = "ready"
                /\ adv.chunks[NextIndex].audioUrl # NoUrl) )
         => \E r \in runs' :
              /\ runs' = runs \cup {r}
              /\ r \notin runs
              /\ r.id = adv.chunks[NextIndex].id
              /\ r.caller = "advance"
              /\ r.autoPlayAfter
      /\ \A r \in runs :
           (r.caller = "advance" /\ r \notin runs' /\ reloads' = reloads
            /\ \A q \in runs' : q.n # r.n)
           => /\ runs' = runs \ {r}
              /\ adv' = adv
              /\ \/ /\ r.pc = "tts"
                    /\ activeChunkId' = r.id
                    /\ audio' = [src |-> r.n, paused |-> FALSE]
                    /\ ~isPaused'
                    /\ \A i \in IndexesOf(state'.chunks, r.id) :
                         /\ state'.chunks[i].status = "ready"
                         /\ state'.chunks[i].audioUrl = r.n
                 \/ /\ activeChunkId' = NoId
                    /\ isPaused'
                    /\ audio' = audio
                    /\ \A i \in IndexesOf(state'.chunks, r.id) :
                         state'.chunks[i].status = "error" ]_vars

\* C17 witness: the one attempt of an auto-advance is in flight for the
\* second section, after the first was played to its end with auto-next on.
C17_Witness ==
  /\ state.isAutoNext
  /\ \E r \in runs : r.caller = "advance" /\ r.pc = "tts" /\ r.id = 2
  /\ activeChunkId = NoId
  /\ isPaused

\* C18: activeChunkId is null or the id of a section of the current list.
C18_ActiveIsListed == activeChunkId = NoId \/ Listed(state.chunks, activeChunkId)

\* C19: a section has an audioUrl exactly when its status is 'ready'.
C19_UrlIffReady ==
  \A i \in DOMAIN state.chunks :
    (state.chunks[i].audioUrl # NoUrl) <=> (state.chunks[i].status = "ready")

\* C20: when the delay expires with auto-next turned off, or while another
\* section than the ended one is playing, no generation starts and the
\* active section stays.
C20_DecisionAtExpiry ==
  [][ ( /\ AdvExpires
        /\ FileShown
        /\ \/ ~state.isAutoNext
           \/ (Playing /\ activeChunkId # NoId /\ activeChunkId # adv.activeChunkId) )
      => (runs' = runs /\ activeChunkId' = activeChunkId) ]_vars

====
